---------------------------- MODULE Spec2Model ----------------------------
(***************************************************************************)
(* Model of src/main.py: the translation-record aggregator, the labelled   *)
(* field extractor, the nutrient splitter (parse_nutrients), the row       *)
(* builder (build_rows_for_product) and the CSV writer loop.               *)
(*                                                                         *)
(* Text is a sequence of one-character tokens.  Characters outside ASCII   *)
(* are written as two-character tokens: "z^" is z-caron, "i'" is i-acute,  *)
(* "a'" is a-acute, "u*" is u-ring (upper case "Z^", "I'", "A'", "U*").    *)
(* "LF" is the line feed.                                                  *)
(*                                                                         *)
(* A Python str that is handed to BeautifulSoup is the record              *)
(* [none |-> FALSE, id, p]: id names the string, p is the list of its <p>  *)
(* elements in document order (what soup.find_all("p") returns).  A <p> is *)
(* [strong, has, rest]: has says whether it holds a <strong>, strong is    *)
(* that element's text and rest the text that follows it.  JSON null is    *)
(* the record None.                                                        *)
(***************************************************************************)
EXTENDS Integers, Sequences, FiniteSets, TLC

VARIABLES
    pc,               \* "read", "rows", "done", "error" (the script); "call", "returned" (one function)
    data,             \* the records of the JSON list consumed so far (line 34)
    products,         \* the dict of line 30, as the sequence of its items in insertion order
    idx,              \* number of items of products the loop of line 204 has handled
    product_rows,     \* line 207, the rows of the item handled last
    nutrient_block,   \* line 148 (the argument of parse_nutrients)
    nutrient_pairs,   \* line 149 (the result of parse_nutrients)
    all_csv_rows,     \* line 203
    csv_out           \* the lines written to OUTPUT_CSV (lines 211-215)

vars == <<pc, data, products, idx, product_rows, nutrient_block, nutrient_pairs,
          all_csv_rows, csv_out>>

-----------------------------------------------------------------------------
(* Bounds *)

MaxRecords == 3
MaxBlocks == 2
MaxPieces == 4

-----------------------------------------------------------------------------
(* Text: str.strip, str.lower, the operator in *)

LF == "LF"

IsSpace(c) == c \in {" ", LF}

RECURSIVE LStrip(_)
LStrip(s) == IF s # <<>> /\ IsSpace(Head(s)) THEN LStrip(Tail(s)) ELSE s

RECURSIVE RStrip(_)
RStrip(s) ==
    IF s # <<>> /\ IsSpace(s[Len(s)]) THEN RStrip(SubSeq(s, 1, Len(s) - 1)) ELSE s

Strip(s) == RStrip(LStrip(s))

UpperChars ==
    <<"A", "B", "C", "D", "E", "F", "G", "H", "I", "J", "K", "L", "M", "N", "O", "P", "Q",
      "R", "S", "T", "U", "V", "W", "X", "Y", "Z", "Z^", "I'", "A'", "U*">>
LowerChars ==
    <<"a", "b", "c", "d", "e", "f", "g", "h", "i", "j", "k", "l", "m", "n", "o", "p", "q",
      "r", "s", "t", "u", "v", "w", "x", "y", "z", "z^", "i'", "a'", "u*">>

LowerTable ==
    [c \in {UpperChars[i] : i \in 1..Len(UpperChars)} |->
        LowerChars[CHOOSE i \in 1..Len(UpperChars) : UpperChars[i] = c]]

LowerChar(c) == IF c \in DOMAIN LowerTable THEN LowerTable[c] ELSE c

Lower(s) == [i \in 1..Len(s) |-> LowerChar(s[i])]

\* sub in s
Contains(s, sub) ==
    \/ sub = <<>>
    \/ \E i \in 1..Len(s) :
        /\ s[i] = sub[1]
        /\ i + Len(sub) - 1 <= Len(s)
        /\ SubSeq(s, i, i + Len(sub) - 1) = sub

-----------------------------------------------------------------------------
(* The nutrient splitter *)

\* NUTRIENT_ITEM_REGEX tried at position p: the position of the last character
\* of the match, 0 when there is none.  [^,]+ is greedy and gives characters
\* back one by one, so the "(" tried first is the last one of the comma-free
\* run that starts at p; [^)]* then runs up to the first ")".
CommaFree(s, p, k) == \A i \in p..k : s[i] # ","

HasClose(s, k) == \E j \in (k + 1)..Len(s) : s[j] = ")"

FirstClose(s, k) ==
    CHOOSE j \in (k + 1)..Len(s) :
        s[j] = ")" /\ \A i \in (k + 1)..(j - 1) : s[i] # ")"

ItemOpens(s, p) ==
    {k \in (p + 1)..Len(s) : s[k] = "(" /\ CommaFree(s, p, k - 1) /\ HasClose(s, k)}

MaxOf(S) == CHOOSE k \in S : \A m \in S : m <= k

ItemMatchEnd(s, p) ==
    LET opens == ItemOpens(s, p)
    IN  IF opens = {} THEN 0 ELSE FirstClose(s, MaxOf(opens))

\* NUTRIENT_ITEM_REGEX.findall: leftmost matches, each search resuming after
\* the previous match.
RECURSIVE FindAllFrom(_, _)
FindAllFrom(s, p) ==
    IF p > Len(s) THEN <<>>
    ELSE LET e == ItemMatchEnd(s, p)
         IN  IF e = 0 THEN FindAllFrom(s, p + 1)
             ELSE <<SubSeq(s, p, e)>> \o FindAllFrom(s, e + 1)

FindAllItems(s) == FindAllFrom(s, 1)

\* NUTRIENT_NAME_AND_QTY_REGEX.match: (.*?) grows one character at a time, "."
\* does not match a line feed.  QtyClose is the position of the ")" that ends
\* the lazy second group opened at a, 0 when the group cannot be closed.
RECURSIVE QtyClose(_, _)
QtyClose(t, b) ==
    IF b > Len(t) THEN 0
    ELSE IF t[b] = ")" THEN b
    ELSE IF t[b] = LF THEN 0
    ELSE QtyClose(t, b + 1)

NoMatch == [matched |-> FALSE, name |-> <<>>, qty |-> <<>>]

RECURSIVE NameQtyFrom(_, _)
NameQtyFrom(t, a) ==
    IF a > Len(t) THEN NoMatch
    ELSE LET b == IF t[a] = "(" THEN QtyClose(t, a + 1) ELSE 0
         IN  IF b # 0
             THEN [matched |-> TRUE, name |-> SubSeq(t, 1, a - 1), qty |-> SubSeq(t, a + 1, b - 1)]
             ELSE IF t[a] = LF THEN NoMatch
             ELSE NameQtyFrom(t, a + 1)

\* Mutant: the pattern compiled with re.DOTALL, "." matching the line feed too.
NameQtyMatchDotAll(t) ==
    IF \E a \in 1..Len(t) : t[a] = "(" /\ HasClose(t, a)
    THEN LET a == CHOOSE k \in 1..Len(t) :
                    /\ t[k] = "(" /\ HasClose(t, k)
                    /\ \A j \in 1..(k - 1) : ~(t[j] = "(" /\ HasClose(t, j))
         IN  [matched |-> TRUE, name |-> SubSeq(t, 1, a - 1),
              qty |-> SubSeq(t, a + 1, FirstClose(t, a) - 1)]
    ELSE NoMatch

NameQtyMatch(t) == NameQtyFrom(t, 1)

\* Mutant: the two groups taken as matched, without strip().
PairOfItemUntrimmed(item) ==
    LET m == NameQtyMatch(Strip(item))
    IN  IF m.matched THEN <<m.name, m.qty>> ELSE <<Strip(item), <<>>>>

\* The body of the loop of parse_nutrients, for one item.
PairOfItem(item) ==
    LET m == NameQtyMatch(Strip(item))
    IN  IF m.matched THEN <<Strip(m.name), Strip(m.qty)>> ELSE <<Strip(item), <<>>>>

parse_nutrients(nutrient_text) ==
    LET items == FindAllItems(nutrient_text)
    IN  [i \in 1..Len(items) |-> PairOfItem(items[i])]


-----------------------------------------------------------------------------
(* Python values that reach BeautifulSoup *)

None == [none |-> TRUE, id |-> "None", p |-> <<>>]

EmptyStr == [none |-> FALSE, id |-> "", p |-> <<>>]

PlainStr(id) == [none |-> FALSE, id |-> id, p |-> <<>>]

Html(blocks) == IF blocks = <<>> THEN EmptyStr ELSE [none |-> FALSE, id |-> "html", p |-> blocks]

Para(strong, rest) == [has |-> TRUE, strong |-> strong, rest |-> rest]

PlainPara(rest) == [has |-> FALSE, strong |-> <<>>, rest |-> rest]

-----------------------------------------------------------------------------
(* The field extractor *)

\* strong.get_text(strip=True).lower()
StrongText(b) == Lower(Strip(b.strong))

\* p.get_text(strip=True): the stripped strings of the element, joined.
ParaText(b) == IF b.has THEN Strip(b.strong) \o Strip(b.rest) ELSE Strip(b.rest)

\* p.get_text(strip=True) once strong.extract() has removed the <strong>.
ParaRest(b) == Strip(b.rest)

LabelHit(b, labels) ==
    /\ b.has
    /\ LET strong_text == StrongText(b)
       IN  \E i \in 1..Len(labels) : Contains(strong_text, Lower(labels[i]))

\* The loop of extract_field over soup.find_all("p"), from paragraph i on: the
\* index of the paragraph it returns from, 0 when it falls through.
RECURSIVE FieldIndexFrom(_, _, _)
FieldIndexFrom(p, labels, i) ==
    IF i > Len(p) THEN 0
    ELSE IF LabelHit(p[i], labels) THEN i
    ELSE FieldIndexFrom(p, labels, i + 1)

FieldIndex(p, labels) == FieldIndexFrom(p, labels, 1)

\* Mutant: the loops exchanged, the labels outside and the paragraphs inside.
RECURSIVE extract_field_by_label(_, _)
extract_field_by_label(p, labels) ==
    IF labels = <<>> THEN <<>>
    ELSE LET i == FieldIndex(p, <<Head(labels)>>)
         IN  IF i = 0 THEN extract_field_by_label(p, Tail(labels)) ELSE ParaRest(p[i])

extract_field(p, labels) ==
    LET i == FieldIndex(p, labels)
    IN  IF i = 0 THEN <<>> ELSE ParaRest(p[i])

\* Mutant: the list without its last marker.
known_markers_short ==
    << <<"z^", "i", "v", "i", "n", "y">>,
       <<"s", "l", "o", "z^", "e", "n", "i'">>,
       <<"i", "n", "g", "r", "e", "d", "i", "e", "n", "c", "e">>,
       <<"s", "k", "l", "a", "d", "o", "v", "a'", "n", "i'">>,
       <<"h", "m", "o", "t", "n", "o", "s", "t">>,
       <<"p", "u*", "v", "o", "d">> >>

known_markers ==
    << <<"z^", "i", "v", "i", "n", "y">>,
       <<"s", "l", "o", "z^", "e", "n", "i'">>,
       <<"i", "n", "g", "r", "e", "d", "i", "e", "n", "c", "e">>,
       <<"s", "k", "l", "a", "d", "o", "v", "a'", "n", "i'">>,
       <<"h", "m", "o", "t", "n", "o", "s", "t">>,
       <<"p", "u*", "v", "o", "d">>,
       <<"a", "l", "l", "e", "r", "g", "e", "n">> >>

MarkerHit(b) ==
    /\ b.has
    /\ LET st_text == StrongText(b)
       IN  \E i \in 1..Len(known_markers) : Contains(st_text, known_markers[i])

\* The loop of extract_description, from paragraph i on.
RECURSIVE DescriptionIndexFrom(_, _)
DescriptionIndexFrom(p, i) ==
    IF i > Len(p) THEN 0
    ELSE IF MarkerHit(p[i]) THEN DescriptionIndexFrom(p, i + 1)
    ELSE i

DescriptionIndex(p) == DescriptionIndexFrom(p, 1)

extract_description(p) ==
    LET i == DescriptionIndex(p)
    IN  IF i = 0 THEN <<>> ELSE ParaText(p[i])

-----------------------------------------------------------------------------
(* The row builder *)

CSV_COLUMNS ==
    <<"SKU", "Title", "Description", "Allergen", "Ingredients", "Storage", "Weight",
      "Origin", "Nutrient", "Quantity">>

AllergenLabels == << <<"A", "l", "l", "e", "r", "g", "e", "n">> >>
IngredientsLabels ==
    << <<"S", "l", "o", "z^", "e", "n", "i'">>,
       <<"I", "n", "g", "r", "e", "d", "i", "e", "n", "c", "e">> >>
StorageLabels == << <<"S", "k", "l", "a", "d", "o", "v", "a'", "n", "i'">> >>
WeightLabels == << <<"H", "m", "o", "t", "n", "o", "s", "t">> >>
OriginLabels == << <<"P", "u*", "v", "o", "d">> >>
NutrientLabels == << <<"Z^", "i", "v", "i", "n", "y">> >>

\* Lines 139-148, for a body_html that is a str.
ExtractedFields(p) ==
    [description |-> extract_description(p),
     allergen |-> extract_field(p, AllergenLabels),
     ingredients |-> extract_field(p, IngredientsLabels),
     storage |-> extract_field(p, StorageLabels),
     weight |-> extract_field(p, WeightLabels),
     origin |-> extract_field(p, OriginLabels),
     nutrient_block |-> extract_field(p, NutrientLabels)]

FirstRow(sku, title, f, nut_name, nut_qty) ==
    [SKU |-> sku, Title |-> title, Description |-> f.description,
     Allergen |-> f.allergen, Ingredients |-> f.ingredients, Storage |-> f.storage,
     Weight |-> f.weight, Origin |-> f.origin, Nutrient |-> nut_name, Quantity |-> nut_qty]

\* Mutant: a later row that still carries the product's fields.
RowsOfEveryRowFull(sku, title, f, pairs) ==
    IF pairs = <<>>
    THEN <<FirstRow(sku, title, f, <<>>, <<>>)>>
    ELSE [i \in 1..Len(pairs) |-> FirstRow(sku, title, f, pairs[i][1], pairs[i][2])]

\* Mutant: the quantity written to both nutrient columns.
BlankRowQuantityTwice(nut_name, nut_qty) ==
    [SKU |-> "", Title |-> EmptyStr, Description |-> <<>>, Allergen |-> <<>>,
     Ingredients |-> <<>>, Storage |-> <<>>, Weight |-> <<>>, Origin |-> <<>>,
     Nutrient |-> nut_qty, Quantity |-> nut_qty]

BlankRow(nut_name, nut_qty) ==
    [SKU |-> "", Title |-> EmptyStr, Description |-> <<>>, Allergen |-> <<>>,
     Ingredients |-> <<>>, Storage |-> <<>>, Weight |-> <<>>, Origin |-> <<>>,
     Nutrient |-> nut_name, Quantity |-> nut_qty]

\* Lines 152-196.
RowsOf(sku, title, f, pairs) ==
    IF pairs = <<>>
    THEN <<FirstRow(sku, title, f, <<>>, <<>>)>>
    ELSE [i \in 1..Len(pairs) |->
            IF i = 1 THEN FirstRow(sku, title, f, pairs[i][1], pairs[i][2])
            ELSE BlankRow(pairs[i][1], pairs[i][2])]

\* Line 137 reads body_html or "", lines 140-148 hand body_html itself to
\* BeautifulSoup, whose constructor raises TypeError on None.
SoupRaises(body_html) == body_html.none

build_rows_for_product(sku, title, body_html) ==
    IF SoupRaises(body_html)
    THEN [raised |-> TRUE, nutrient_block |-> <<>>, nutrient_pairs |-> <<>>, rows |-> <<>>]
    ELSE LET f == ExtractedFields(body_html.p)
             pairs == parse_nutrients(f.nutrient_block)
         IN  [raised |-> FALSE, nutrient_block |-> f.nutrient_block, nutrient_pairs |-> pairs,
              rows |-> RowsOf(sku, title, f, pairs)]

-----------------------------------------------------------------------------
(* The record aggregator *)

\* products[sku] = {}
EmptyInfo == [has_title |-> FALSE, title |-> EmptyStr, has_body |-> FALSE, body_html |-> EmptyStr]

HasSku(prods, sku) == \E i \in 1..Len(prods) : prods[i].sku = sku

\* Mutant: an identifier seen again is taken out and put back last.
CreatedMovedLast(prods, sku) ==
    IF HasSku(prods, sku)
    THEN LET Other(x) == x.sku # sku
             Same(x) == x.sku = sku
         IN  SelectSeq(prods, Other) \o SelectSeq(prods, Same)
    ELSE Append(prods, [sku |-> sku, info |-> EmptyInfo])

Created(prods, sku) ==
    IF HasSku(prods, sku) THEN prods ELSE Append(prods, [sku |-> sku, info |-> EmptyInfo])

\* Mutant: a field once set is not overwritten.
SetInfoFirstWins(info, key, translation) ==
    IF key = "title" /\ ~info.has_title
    THEN [info EXCEPT !.has_title = TRUE, !.title = translation]
    ELSE IF key = "body_html" /\ ~info.has_body
    THEN [info EXCEPT !.has_body = TRUE, !.body_html = translation]
    ELSE info

SetInfo(info, key, translation) ==
    IF key = "title" THEN [info EXCEPT !.has_title = TRUE, !.title = translation]
    ELSE IF key = "body_html" THEN [info EXCEPT !.has_body = TRUE, !.body_html = translation]
    ELSE info

\* Mutant: the loop without the test of line 36.
AggregateStepNoSkip(prods, record) ==
    LET made == Created(prods, record.sku)
    IN  [i \in 1..Len(made) |->
            IF made[i].sku = record.sku
            THEN [sku |-> record.sku,
                  info |-> SetInfo(made[i].info, record.key, record.translation)]
            ELSE made[i]]

\* The body of the loop of line 34 for one record; record.get("sku", "") is
\* the sku field, "" when the record has none.
AggregateStep(prods, record) ==
    IF record.sku = "" THEN prods
    ELSE LET made == Created(prods, record.sku)
         IN  [i \in 1..Len(made) |->
                IF made[i].sku = record.sku
                THEN [sku |-> record.sku,
                      info |-> SetInfo(made[i].info, record.key, record.translation)]
                ELSE made[i]]

RECURSIVE Aggregate(_)
Aggregate(records) ==
    IF records = <<>> THEN <<>>
    ELSE AggregateStep(Aggregate(SubSeq(records, 1, Len(records) - 1)), records[Len(records)])

\* info.get("title", "") and info.get("body_html", "")
InfoTitle(info) == IF info.has_title THEN info.title ELSE EmptyStr
InfoBody(info) == IF info.has_body THEN info.body_html ELSE EmptyStr


-----------------------------------------------------------------------------
(* Inputs *)

\* Paragraph texts; TextThree holds three nutrient items, two of one name,
\* TextOne holds one.
TextGhee == <<" ", "G", "h", "e", "e">>
TextThree == <<"a", "(", "1", ")", ",", "b", "(", "2", ")", ",", " ", "a", "(", "3", ")">>
TextOne == <<"c", "(", "4", "g", ")">>

LeadNutrients == <<" ", "Z^", "i", "v", "i", "n", "y", ":">>

\* <strong> texts: the labels as the documents write them, and two that are
\* no label.
Leads ==
    {<<"A", "l", "l", "e", "r", "g", "e", "n">>,
     <<"S", "L", "O", "Z^", "E", "N", "I'", ":">>,
     <<"I", "n", "g", "r", "e", "d", "i", "e", "n", "c", "e", " ">>,
     <<"S", "k", "l", "a", "d", "o", "v", "a'", "n", "i'">>,
     <<"H", "m", "o", "t", "n", "o", "s", "t">>,
     <<"P", "u*", "v", "o", "d">>,
     LeadNutrients,
     <<"P", "o", "z", "n">>,
     <<>>}

Paras ==
    {Para(l, r) : l \in Leads, r \in {TextGhee, TextOne}}
        \cup {Para(LeadNutrients, r) : r \in {<<>>, TextThree}}
        \cup {PlainPara(r) : r \in {TextGhee, TextOne}}

\* The translations a record of the whole-script specification carries.
DocNutrients ==
    Html(<<PlainPara(TextGhee),
           Para(<<"Z^", "i", "v", "i", "n", "y">>, TextThree)>>)
DocPlain ==
    Html(<<Para(<<"H", "m", "o", "t", "n", "o", "s", "t">>, TextGhee),
           Para(<<"Z^", "i", "v", "i", "n", "y">>, TextOne)>>)

Fields ==
    {<<"title", PlainStr("Ghee")>>, <<"title", PlainStr("Maslo")>>,
     <<"body_html", None>>, <<"body_html", DocNutrients>>, <<"body_html", DocPlain>>,
     <<"price", PlainStr("Ghee")>>}

Records ==
    {[sku |-> s, key |-> f[1], translation |-> f[2]] : s \in {"A", "B"}, f \in Fields}
        \cup {[sku |-> "", key |-> "title", translation |-> PlainStr("Ghee")]}

\* The records of one product: a title and, but for NoBody, a body.
TitleRecord == [sku |-> "A", key |-> "title", translation |-> PlainStr("Ghee")]
BodyRecord(body_html) == [sku |-> "A", key |-> "body_html", translation |-> body_html]

\* Nutrient blocks: up to MaxPieces pieces, one after the other.
Pieces ==
    {<<"a", "(", "1", ")">>, <<",", "b", "(", "2", ")">>,
     <<",", " ", "a", " ", "(", " ", "3", " ", ")", " ">>,
     <<"x">>, <<"(">>, <<")">>, <<",">>, <<" ">>, <<LF>>}

RECURSIVE TextsUpTo(_)
TextsUpTo(n) ==
    IF n = 0 THEN {<<>>}
    ELSE TextsUpTo(n - 1) \cup {t \o q : t \in TextsUpTo(n - 1), q \in Pieces}

NutrientTexts == TextsUpTo(MaxPieces)

-----------------------------------------------------------------------------
(* The script *)

Init ==
    /\ pc = "read"
    /\ data = <<>>
    /\ products = <<>>
    /\ idx = 0
    /\ product_rows = <<>>
    /\ nutrient_block = <<>>
    /\ nutrient_pairs = <<>>
    /\ all_csv_rows = <<>>
    /\ csv_out = <<>>

\* One turn of the loop of line 34.
ReadRecord ==
    /\ pc = "read"
    /\ Len(data) < MaxRecords
    /\ \E record \in Records :
        /\ data' = Append(data, record)
        /\ products' = AggregateStep(products, record)
    /\ UNCHANGED <<pc, idx, product_rows, nutrient_block, nutrient_pairs, all_csv_rows, csv_out>>

\* The list is exhausted: the script goes on to line 203.
EndOfData ==
    /\ pc = "read"
    /\ pc' = "rows"
    /\ UNCHANGED <<data, products, idx, product_rows, nutrient_block, nutrient_pairs,
                   all_csv_rows, csv_out>>

RowsResult(item) ==
    build_rows_for_product(item.sku, InfoTitle(item.info), InfoBody(item.info))

\* One turn of the loop of line 204; an exception ends the script.
GenerateRows ==
    /\ pc = "rows"
    /\ idx < Len(products)
    /\ LET r == RowsResult(products[idx + 1])
       IN  IF r.raised
           THEN /\ pc' = "error"
                /\ UNCHANGED <<idx, product_rows, nutrient_block, nutrient_pairs, all_csv_rows>>
           ELSE /\ pc' = "rows"
                /\ idx' = idx + 1
                /\ product_rows' = r.rows
                /\ nutrient_block' = r.nutrient_block
                /\ nutrient_pairs' = r.nutrient_pairs
                /\ all_csv_rows' = all_csv_rows \o r.rows
    /\ UNCHANGED <<data, products, csv_out>>

\* writer.writerow(row): the cells in the order of CSV_COLUMNS.
CsvLine(row) ==
    <<row.SKU, row.Title, row.Description, row.Allergen, row.Ingredients, row.Storage,
      row.Weight, row.Origin, row.Nutrient, row.Quantity>>

\* Lines 211-215.
WriteCsv ==
    /\ pc = "rows"
    /\ idx = Len(products)
    /\ csv_out' = <<CSV_COLUMNS>> \o [i \in 1..Len(all_csv_rows) |-> CsvLine(all_csv_rows[i])]
    /\ pc' = "done"
    /\ UNCHANGED <<data, products, idx, product_rows, nutrient_block, nutrient_pairs,
                   all_csv_rows>>

Next == ReadRecord \/ EndOfData \/ GenerateRows \/ WriteCsv

Spec == Init /\ [][Next]_vars

\* build_rows_for_product on one product: its markup is any sequence of up to
\* MaxBlocks paragraphs of Paras, or null, or absent.
InitBuild ==
    /\ pc = "rows"
    /\ \/ \E n \in 0..MaxBlocks : \E m \in [1..n -> Paras] :
            data = <<TitleRecord, BodyRecord(Html(m))>>
       \/ data = <<TitleRecord, BodyRecord(None)>>
       \/ data = <<TitleRecord>>
    /\ products = Aggregate(data)
    /\ idx = 0
    /\ product_rows = <<>>
    /\ nutrient_block = <<>>
    /\ nutrient_pairs = <<>>
    /\ all_csv_rows = <<>>
    /\ csv_out = <<>>

NextBuild == GenerateRows \/ WriteCsv

SpecBuild == InitBuild /\ [][NextBuild]_vars

\* parse_nutrients on every text of NutrientTexts.
InitNutrients ==
    /\ pc = "call"
    /\ nutrient_block \in NutrientTexts
    /\ nutrient_pairs = <<>>
    /\ data = <<>>
    /\ products = <<>>
    /\ idx = 0
    /\ product_rows = <<>>
    /\ all_csv_rows = <<>>
    /\ csv_out = <<>>

ParseNutrients ==
    /\ pc = "call"
    /\ nutrient_pairs' = parse_nutrients(nutrient_block)
    /\ pc' = "returned"
    /\ UNCHANGED <<data, products, idx, product_rows, nutrient_block, all_csv_rows, csv_out>>

NextNutrients == ParseNutrients

SpecNutrients == InitNutrients /\ [][NextNutrients]_vars


-----------------------------------------------------------------------------
(* The nutrient splitter's claims, under SpecNutrients *)

\* The comma-delimited fragments of a text, in order.
RECURSIVE SplitComma(_)
SplitComma(s) ==
    IF \A i \in 1..Len(s) : s[i] # "," THEN <<s>>
    ELSE LET c == CHOOSE i \in 1..Len(s) : s[i] = "," /\ \A j \in 1..(i - 1) : s[j] # ","
         IN  <<SubSeq(s, 1, c - 1)>> \o SplitComma(SubSeq(s, c + 1, Len(s)))

Count(s, ch) == Cardinality({i \in 1..Len(s) : s[i] = ch})

FirstOpen(t) == CHOOSE a \in 1..Len(t) : t[a] = "(" /\ \A j \in 1..(a - 1) : t[j] # "("

\* A trimmed fragment that ends in a parenthesized group.
EndsInGroup(t) == t # <<>> /\ t[Len(t)] = ")" /\ Count(t, "(") > 0

GroupPair(t) ==
    <<Strip(SubSeq(t, 1, FirstOpen(t) - 1)), Strip(SubSeq(t, FirstOpen(t) + 1, Len(t) - 1))>>

RECURSIVE PairsOfFragments(_)
PairsOfFragments(frags) ==
    IF frags = <<>> THEN <<>>
    ELSE (IF EndsInGroup(Strip(Head(frags))) THEN <<GroupPair(Strip(Head(frags)))>> ELSE <<>>)
            \o PairsOfFragments(Tail(frags))

\* C7 as stated: one pair for each comma-delimited fragment that ends in a
\* parenthesized group, name the trimmed text before its first "(", quantity
\* the trimmed text inside the group; nothing for the other fragments.
C7_EveryBlock ==
    pc = "returned" => nutrient_pairs = PairsOfFragments(SplitComma(nutrient_block))

\* A fragment is plain when it holds no parenthesis, and regular when it is
\* some text, one parenthesized group and white space after it, with no line
\* feed from its first printing character to the ")".
PlainFragment(f) == Count(f, "(") = 0 /\ Count(f, ")") = 0

RegularFragment(f) ==
    /\ Count(f, "(") = 1
    /\ Count(f, ")") = 1
    /\ f[1] # "("
    /\ EndsInGroup(Strip(f))
    /\ Count(Strip(f), LF) = 0

RegularBlock(s) ==
    \A i \in 1..Len(SplitComma(s)) :
        PlainFragment(SplitComma(s)[i]) \/ RegularFragment(SplitComma(s)[i])

\* C7, amended: the statement of C7 for the blocks whose fragments are all
\* plain or regular.
C7_RegularBlocks ==
    (pc = "returned" /\ RegularBlock(nutrient_block))
        => nutrient_pairs = PairsOfFragments(SplitComma(nutrient_block))

C7_Witness ==
    /\ pc = "returned"
    /\ RegularBlock(nutrient_block)
    /\ Len(SplitComma(nutrient_block)) = 4
    /\ nutrient_pairs = << <<<<"a">>, <<"1">>>>, <<<<"b">>, <<"2">>>>, <<<<"a">>, <<"3">>>> >>


HasGroup(t) == \E a \in 1..Len(t) : t[a] = "(" /\ HasClose(t, a)

\* C5 as stated: a comma-delimited fragment with no parenthesized group is
\* kept as the pair (fragment, "").
C5_EveryFragment ==
    pc = "returned" =>
        \A i \in 1..Len(SplitComma(nutrient_block)) :
            LET t == Strip(SplitComma(nutrient_block)[i])
            IN  (t # <<>> /\ ~HasGroup(t)) =>
                    \E k \in 1..Len(nutrient_pairs) : nutrient_pairs[k] = <<t, <<>>>>

\* NUTRIENT_NAME_AND_QTY_REGEX can match t: a "(" and a later ")" with no line
\* feed anywhere before that ")".
Recognizable(t) ==
    \E a \in 1..Len(t) : \E b \in (a + 1)..Len(t) :
        t[a] = "(" /\ t[b] = ")" /\ \A j \in 1..b : t[j] # LF

\* C5, amended: there is one pair for each item NUTRIENT_ITEM_REGEX finds; an
\* item the second pattern cannot match is kept whole, trimmed, with the empty
\* quantity; and no more pairs are returned than there are comma-delimited
\* fragments holding a "(", so a fragment without parentheses is dropped.
C5_UnmatchedItemKept ==
    pc = "returned" =>
        LET items == FindAllItems(nutrient_block)
            frags == SplitComma(nutrient_block)
        IN  /\ Len(nutrient_pairs) = Len(items)
            /\ \A i \in 1..Len(items) :
                ~Recognizable(Strip(items[i])) => nutrient_pairs[i] = <<Strip(items[i]), <<>>>>
            /\ Len(nutrient_pairs) <= Cardinality({i \in 1..Len(frags) : Count(frags[i], "(") > 0})

C5_Witness ==
    /\ pc = "returned"
    /\ nutrient_block = <<"x", LF, "(", ")">>
    /\ nutrient_pairs = << <<nutrient_block, <<>>>> >>


-----------------------------------------------------------------------------
(* The extractor's and the row builder's claims, under SpecBuild *)

\* The item the loop of line 204 handled last, its markup and its title.
Handled == products[idx]
HandledParas == InfoBody(Handled.info).p
HandledTitle == InfoTitle(Handled.info)

EmptyColumns(row) ==
    /\ row.SKU = ""
    /\ row.Title = EmptyStr
    /\ row.Description = <<>>
    /\ row.Allergen = <<>>
    /\ row.Ingredients = <<>>
    /\ row.Storage = <<>>
    /\ row.Weight = <<>>
    /\ row.Origin = <<>>

\* C2: with N >= 1 pairs, row i carries pair i of the splitter's result, in
\* its order; the first row carries the eight product columns and every later
\* row has them empty.
C2_RowsCarryPairs ==
    (idx >= 1 /\ nutrient_pairs # <<>>) =>
        /\ nutrient_pairs = parse_nutrients(extract_field(HandledParas, NutrientLabels))
        /\ Len(product_rows) = Len(nutrient_pairs)
        /\ \A i \in 1..Len(product_rows) :
            /\ product_rows[i].Nutrient = nutrient_pairs[i][1]
            /\ product_rows[i].Quantity = nutrient_pairs[i][2]
            /\ i > 1 => EmptyColumns(product_rows[i])
        /\ product_rows[1].SKU = Handled.sku
        /\ product_rows[1].Title = HandledTitle
        /\ product_rows[1].Description = extract_description(HandledParas)
        /\ product_rows[1].Allergen = extract_field(HandledParas, AllergenLabels)
        /\ product_rows[1].Ingredients = extract_field(HandledParas, IngredientsLabels)
        /\ product_rows[1].Storage = extract_field(HandledParas, StorageLabels)
        /\ product_rows[1].Weight = extract_field(HandledParas, WeightLabels)
        /\ product_rows[1].Origin = extract_field(HandledParas, OriginLabels)

C2_Witness ==
    /\ idx = 1
    /\ Len(nutrient_pairs) = 3
    /\ nutrient_pairs[1][1] = nutrient_pairs[3][1]
    /\ product_rows[3].Nutrient = <<"a">>
    /\ product_rows[3].Quantity = <<"3">>
    /\ product_rows[1].Description # <<>>

\* The markup is empty, null or absent.
BlankBody(info) == ~info.has_body \/ info.body_html = EmptyStr \/ info.body_html = None

SkuTitleRow(sku, title) ==
    [SKU |-> sku, Title |-> title, Description |-> <<>>, Allergen |-> <<>>,
     Ingredients |-> <<>>, Storage |-> <<>>, Weight |-> <<>>, Origin |-> <<>>,
     Nutrient |-> <<>>, Quantity |-> <<>>]

\* C6: a product whose markup is empty, null or absent never makes the script
\* fail, and yields one row with SKU and Title and nothing else.
C6_BlankMarkupOneRow ==
    /\ (pc = "error") => ~BlankBody(products[idx + 1].info)
    /\ (idx >= 1 /\ BlankBody(Handled.info)) =>
            product_rows = <<SkuTitleRow(Handled.sku, HandledTitle)>>

\* The first paragraph, in document order, that has a <strong> whose folded
\* text holds one of the folded labels; 0 when there is none.
LabelledParas(p, labels) ==
    {i \in 1..Len(p) :
        /\ p[i].has
        /\ \E k \in 1..Len(labels) : Contains(Lower(Strip(p[i].strong)), Lower(labels[k]))}

FirstLabelled(p, labels) ==
    LET hits == LabelledParas(p, labels)
    IN  IF hits = {} THEN 0 ELSE CHOOSE i \in hits : \A j \in hits : i <= j

RestOfFirstLabelled(p, labels) ==
    LET i == FirstLabelled(p, labels)
    IN  IF i = 0 THEN <<>> ELSE Strip(p[i].rest)

\* C8: each labelled field is the text left in the first paragraph, in
\* document order, whose lead-in holds one of the field's labels, whatever the
\* place of that label in the list, and the empty text when there is none.
C8_FirstParagraphInDocumentOrder ==
    idx >= 1 =>
        /\ product_rows[1].Allergen = RestOfFirstLabelled(HandledParas, AllergenLabels)
        /\ product_rows[1].Ingredients = RestOfFirstLabelled(HandledParas, IngredientsLabels)
        /\ product_rows[1].Storage = RestOfFirstLabelled(HandledParas, StorageLabels)
        /\ product_rows[1].Weight = RestOfFirstLabelled(HandledParas, WeightLabels)
        /\ product_rows[1].Origin = RestOfFirstLabelled(HandledParas, OriginLabels)
        /\ nutrient_block = RestOfFirstLabelled(HandledParas, NutrientLabels)

\* An "Ingredience" paragraph before a "SLOZENI:" paragraph: the first one wins.
C8_Witness ==
    /\ idx = 1
    /\ Len(HandledParas) = 2
    /\ HandledParas[1] = Para(<<"I", "n", "g", "r", "e", "d", "i", "e", "n", "c", "e", " ">>, TextOne)
    /\ HandledParas[2] = Para(<<"S", "L", "O", "Z^", "E", "N", "I'", ":">>, TextGhee)
    /\ product_rows[1].Ingredients = TextOne

FieldLabelLists ==
    {AllergenLabels, IngredientsLabels, StorageLabels, WeightLabels, OriginLabels,
     NutrientLabels}

\* C10: the paragraph that supplies Description supplies no labelled field,
\* and every label, folded, is one of the known markers.
C10_DescriptionApartFromFields ==
    /\ \A labels \in FieldLabelLists : \A k \in 1..Len(labels) :
            \E m \in 1..Len(known_markers) : known_markers[m] = Lower(labels[k])
    /\ \A n \in 1..Len(products) :
            LET p == InfoBody(products[n].info).p
                d == DescriptionIndex(p)
            IN  d # 0 => \A labels \in FieldLabelLists : FieldIndex(p, labels) # d
    /\ idx >= 1 =>
            LET d == DescriptionIndex(HandledParas)
            IN  d # 0 => product_rows[1].Description = ParaText(HandledParas[d])

C10_Witness ==
    /\ idx = 1
    /\ Len(HandledParas) = 2
    /\ FieldIndex(HandledParas, AllergenLabels) = 1
    /\ DescriptionIndex(HandledParas) = 2
    /\ product_rows[1].Allergen # <<>>
    /\ product_rows[1].Description # <<>>


-----------------------------------------------------------------------------
(* The aggregator's and the whole script's claims, under Spec *)

\* C1: a product for which the splitter returned N pairs gets max(1, N) rows,
\* and only the first of them has a SKU.
C1_RowCountAndSku ==
    idx >= 1 =>
        /\ nutrient_pairs = parse_nutrients(nutrient_block)
        /\ Len(product_rows) = (IF Len(nutrient_pairs) = 0 THEN 1 ELSE Len(nutrient_pairs))
        /\ product_rows[1].SKU # ""
        /\ \A i \in 2..Len(product_rows) : product_rows[i].SKU = ""

C1_Witness ==
    /\ pc = "rows"
    /\ idx = 2
    /\ Len(nutrient_pairs) = 3
    /\ Len(product_rows) = 3
    /\ Len(all_csv_rows) = 4

\* The records read so far that carry identifier sku and fieldKey key.
RecordsOf(sku, key) == {j \in 1..Len(data) : data[j].sku = sku /\ data[j].key = key}

LastRecordOf(sku, key) ==
    data[CHOOSE j \in RecordsOf(sku, key) : \A k \in RecordsOf(sku, key) : k <= j]

DraftsOf(sku) == {i \in 1..Len(products) : products[i].sku = sku}

\* C3: an identifier with a title or body record has one draft; a draft's
\* title is set exactly when a title record of its identifier was read, to the
\* text of the last one, and likewise its markup from the body records, so a
\* record with another fieldKey changes neither.
C3_LastWriteWins ==
    /\ \A j \in 1..Len(data) :
            (data[j].sku # "" /\ data[j].key \in {"title", "body_html"})
                => Cardinality(DraftsOf(data[j].sku)) = 1
    /\ \A i \in 1..Len(products) :
            LET sku == products[i].sku
                info == products[i].info
            IN  /\ info.has_title <=> RecordsOf(sku, "title") # {}
                /\ info.has_title => info.title = LastRecordOf(sku, "title").translation
                /\ info.has_body <=> RecordsOf(sku, "body_html") # {}
                /\ info.has_body => info.body_html = LastRecordOf(sku, "body_html").translation

C3_Witness ==
    /\ Len(data) = 3
    /\ data[1].sku = "A" /\ data[1].key = "title"
    /\ data[2].sku = "A" /\ data[2].key = "title"
    /\ data[1].translation # data[2].translation
    /\ data[3].sku = "A" /\ data[3].key = "price"
    /\ products[1].info.title = data[2].translation

\* C4 as stated: no draft and no row for an identifier without a title or
\* body record, nor for the empty identifier.
C4_NoDraftWithoutTitleOrBody ==
    /\ \A i \in 1..Len(products) :
            /\ products[i].sku # ""
            /\ RecordsOf(products[i].sku, "title") \cup RecordsOf(products[i].sku, "body_html") # {}
    /\ \A i \in 1..Len(all_csv_rows) :
            all_csv_rows[i].SKU # "" =>
                RecordsOf(all_csv_rows[i].SKU, "title")
                    \cup RecordsOf(all_csv_rows[i].SKU, "body_html") # {}

\* C4, amended: the records with the empty identifier give no draft and no
\* row; every other identifier read has a draft, and a draft without title
\* and body gives one row that holds its SKU and nothing else.
C4_OnlyEmptyIdentifierDropped ==
    /\ {products[i].sku : i \in 1..Len(products)} = {data[j].sku : j \in 1..Len(data)} \ {""}
    /\ \A i \in 1..Len(all_csv_rows) :
            all_csv_rows[i].SKU # "" => \E j \in 1..Len(data) : data[j].sku = all_csv_rows[i].SKU
    /\ (idx >= 1 /\ ~Handled.info.has_title /\ ~Handled.info.has_body) =>
            product_rows = <<SkuTitleRow(Handled.sku, EmptyStr)>>

C4_Witness ==
    /\ pc = "done"
    /\ \E j \in 1..Len(data) : data[j].sku = ""
    /\ Len(products) = 1
    /\ RecordsOf(products[1].sku, "title") \cup RecordsOf(products[1].sku, "body_html") = {}
    /\ Len(csv_out) = 2
    /\ csv_out[2][1] = products[1].sku

\* The identifiers of the records, each once, in the order of first appearance.
RECURSIVE FirstSeen(_)
FirstSeen(records) ==
    IF records = <<>> THEN <<>>
    ELSE LET before == FirstSeen(SubSeq(records, 1, Len(records) - 1))
             sku == records[Len(records)].sku
         IN  IF sku = "" \/ \E i \in 1..Len(before) : before[i] = sku
             THEN before ELSE Append(before, sku)

\* The rows of one identifier, from the last title and body records read.
GroupOf(sku) ==
    build_rows_for_product(
        sku,
        IF RecordsOf(sku, "title") = {} THEN EmptyStr ELSE LastRecordOf(sku, "title").translation,
        IF RecordsOf(sku, "body_html") = {} THEN EmptyStr
        ELSE LastRecordOf(sku, "body_html").translation).rows

RECURSIVE GroupsOf(_, _)
GroupsOf(skus, n) == IF n = 0 THEN <<>> ELSE GroupsOf(skus, n - 1) \o GroupOf(skus[n])

\* C9: the drafts stand in the order of first appearance; the rows are the
\* row groups of the products handled, one group after the other in that
\* order; the file is the header line and then those rows.
C9_FirstSeenOrder ==
    /\ LET skus == FirstSeen(data)
       IN  /\ [i \in 1..Len(products) |-> products[i].sku] = skus
           /\ pc # "read" => all_csv_rows = GroupsOf(skus, idx)
           /\ pc = "done" => idx = Len(skus)
    /\ pc # "done" => csv_out = <<>>
    /\ pc = "done" =>
            /\ Len(csv_out) = 1 + Len(all_csv_rows)
            /\ csv_out[1] = CSV_COLUMNS
            /\ \A i \in 1..Len(all_csv_rows) : csv_out[i + 1] = CsvLine(all_csv_rows[i])

C9_Witness ==
    /\ pc = "done"
    /\ Len(data) = 3
    /\ data[1].sku = "A" /\ data[2].sku = "B" /\ data[3].sku = "A"
    /\ data[2].translation = DocPlain /\ data[2].key = "body_html"
    /\ data[3].translation = DocNutrients /\ data[3].key = "body_html"
    /\ Len(csv_out) = 5
    /\ csv_out[2][1] = "A" /\ csv_out[5][1] = "B"

=============================================================================
